---- MODULE Spec2Model ----
(***************************************************************************)
(* Model of the Shopifake test runner: the CLI entry point (src/cli.py),   *)
(* TestConfig.from_mode (src/config.py) and the orchestration / reporting  *)
(* state machine TestOrchestrator (src/orchestrator.py), specification     *)
(* Spec; the /health endpoint (src/main.py), SpecHealth; the chaos tests,  *)
(* their helper and the background load thread (src/tests/chaos),          *)
(* SpecChaos; ChaosHelper.wait_for_chaos_completion, SpecWait;             *)
(* test_multiple_pod_failures, SpecPods; the requests of APIClient         *)
(* (src/tests/helpers/api_client.py), SpecClient; the retrying health      *)
(* checks of the chaos tests, SpecRetry; and the load scenario             *)
(* HealthCheckScenario (src/tests/load/scenarios/health.py),               *)
(* SpecLoadHealth.                                                         *)
(*                                                                         *)
(* Python values are encoded as follows.  An optional value is a sequence  *)
(* of length at most one: None is <<>> and a present value v is <<v>>.     *)
(* An object is a record; reading attribute a of object c raises           *)
(* AttributeError exactly when a is not in DOMAIN c.  Wall-clock time      *)
(* (report.duration) and printed text are not modelled, except that each   *)
(* call the claims speak about is appended to the history variable log.    *)
(***************************************************************************)
EXTENDS Integers, Sequences, FiniteSets, TLC

VARIABLES
    entry,          \* who drives the run: "cli" (src/cli.py main) or "api" (a caller of the classes)
    env,            \* os.environ, the variables the code reads
    args,           \* the parsed click options of main
    config,         \* the configuration object (Unbound before it exists)
    suite,          \* the suite argument of TestOrchestrator.run
    pc,             \* position in the program
    system_passed,  \* local of run
    load_passed,    \* local of run
    chaos_passed,   \* local of run
    report,         \* the TestReport built by run (Unbound before line 95)
    exc,            \* the exception that escaped, None if none
    exit_code,      \* the process exit code, None while the process runs
    log,            \* history: the calls made so far, in order
    sys_argv,       \* sys.argv of the process
    cluster,        \* the Chaos Mesh objects the Kubernetes API server holds
    test,           \* the test, helper call or load user that is running: position and locals
    threads,        \* the background load threads: position and locals of each
    clock,          \* time.time(), in seconds
    web,            \* the FastAPI application: its position and the requests sent to it
    api_client      \* the APIClient of the pytest session, None while there is none

vars == <<entry, env, args, config, suite, pc, system_passed, load_passed,
          chaos_passed, report, exc, exit_code, log, sys_argv, cluster, test,
          threads, clock, web, api_client>>

\* The state outside the orchestrator's own names.
extNoArgv == <<cluster, test, threads, clock, web, api_client>>
ext == <<extNoArgv, sys_argv>>
extNoClient == <<cluster, test, threads, clock, web, sys_argv>>

\* The orchestrator's own names.
orch == <<entry, env, args, config, suite, pc, system_passed, load_passed,
          chaos_passed, report, exc, exit_code, log>>

----------------------------------------------------------------------------
(* Python values *)

None == <<>>
Some(v) == <<v>>

\* Python truthiness of an optional string: None and "" are falsy.
TruthyStr(o) == o # None /\ o[1] # ""

\* Python truthiness of an optional int: None and 0 are falsy.
TruthyInt(o) == o # None /\ o[1] # 0

HasAttr(obj, a) == a \in DOMAIN obj

\* int(s) on the strings the model uses: the decimal literals parse, every
\* other string raises ValueError (None here).
int(s) ==
    CASE s = "0" -> Some(0)
      [] s = "30" -> Some(30)
      [] s = "60" -> Some(60)
      [] s = "300" -> Some(300)
      [] OTHER -> None

\* os.getenv(name, default)
getenv(e, name, default) == IF e[name] = None THEN default ELSE e[name][1]

----------------------------------------------------------------------------
(* Inputs *)

Modes == {"pr", "staging"}                    \* click.Choice of --mode
Suites == {"system", "load", "chaos", "all"}  \* click.Choice of --suite
OtherModes == {"prod"}                        \* a mode string from_mode does not know

EnvValues ==
    [BASE_URL : {None, Some("http://env")},
     TIMEOUT : {None, Some("30"), Some("abc")},
     GITHUB_TOKEN : {None, Some(""), Some("ghp_tok")},
     GITHUB_SHA : {None, Some("abc1234")}]

ArgValues ==
    [mode : Modes,
     suite : Suites,
     base_url : {None, Some("http://cli")},
     timeout : {None, Some(0), Some(30)},
     verbose : BOOLEAN]

NoArgs == [mode |-> "pr", suite |-> "system", base_url |-> None,
           timeout |-> None, verbose |-> FALSE]

----------------------------------------------------------------------------
(* src/config.py *)

\* TestConfig(...): the declared fields with the defaults of the class.
\* The class declares neither post_results_to_github nor github_commit_sha.
TestConfig(mode, base_url, timeout, github_token, create_pr, send_email) ==
    [mode |-> mode, base_url |-> base_url, timeout |-> timeout,
     verbose |-> FALSE, github_token |-> github_token,
     create_pr |-> create_pr, send_email |-> send_email]

\* The exception from_mode raises for (mode, e), None if it raises none.
from_mode_raises(mode, e) ==
    IF mode = "pr"
    THEN IF int(getenv(e, "TIMEOUT", "60")) = None THEN Some("ValueError") ELSE None
    ELSE IF mode = "staging"
    THEN IF int(getenv(e, "TIMEOUT", "300")) = None THEN Some("ValueError") ELSE None
    ELSE Some("ValueError")

\* Mutant of from_mode: the pr configuration reads GITHUB_TOKEN as well.
from_mode_PrReadsToken(mode, e) ==
    IF mode = "pr"
    THEN TestConfig("pr", getenv(e, "BASE_URL", "http://localhost:8080"),
                    int(getenv(e, "TIMEOUT", "60"))[1], e["GITHUB_TOKEN"], FALSE, FALSE)
    ELSE TestConfig("staging", getenv(e, "BASE_URL", "https://staging-api.shopifake.com"),
                    int(getenv(e, "TIMEOUT", "300"))[1], e["GITHUB_TOKEN"], TRUE, TRUE)

\* TestConfig.from_mode(mode) under environment e, where it raises nothing.
from_mode(mode, e) ==
    IF mode = "pr"
    THEN TestConfig("pr", getenv(e, "BASE_URL", "http://localhost:8080"),
                    int(getenv(e, "TIMEOUT", "60"))[1], None, FALSE, FALSE)
    ELSE TestConfig("staging", getenv(e, "BASE_URL", "https://staging-api.shopifake.com"),
                    int(getenv(e, "TIMEOUT", "300"))[1], e["GITHUB_TOKEN"], TRUE, TRUE)

\* A configuration object handed to TestOrchestrator by a caller other than
\* main: __init__ stores whatever object it is given, so the object may carry
\* the two attributes the orchestrator reads and TestConfig does not declare.
ConfigObjects ==
    LET Declared == { TestConfig(m, "http://api", 60, t, cp, se) :
                        m \in Modes, t \in {None, Some("ghp_tok")},
                        cp \in BOOLEAN, se \in BOOLEAN }
        Shas == {None, Some("abc1234")}
    IN  Declared
        \cup { c @@ [post_results_to_github |-> p] : c \in Declared, p \in BOOLEAN }
        \cup { c @@ [github_commit_sha |-> s] : c \in Declared, s \in Shas }
        \cup { c @@ [post_results_to_github |-> p, github_commit_sha |-> s] :
                 c \in Declared, p \in BOOLEAN, s \in Shas }

\* A name that is not bound yet (config before from_mode, report before line 95).
Unbound == [unbound |-> TRUE]

----------------------------------------------------------------------------
(* src/orchestrator.py: the decisions of TestOrchestrator.run *)

SuiteNames == {"_run_system_tests", "_run_load_tests", "_run_chaos_tests"}

\* line 73
ShouldRunSystem(s, mode) == s \in {"all", "system"}

\* Mutant of ShouldRunLoad: the mode test is dropped.
ShouldRunLoad_AnyMode(s, mode) == s \in {"all", "load"}

\* line 78
ShouldRunLoad(s, mode) == s \in {"all", "load"} /\ mode = "staging"

\* line 83
ShouldRunChaos(s, mode) == s \in {"all", "chaos"} /\ mode = "staging"

\* Mutant of Verdict: success = all(all_results), without the guard for the
\* empty list.
Verdict_AllOfEmptyIsTrue(sp, lp, cp) ==
    LET all_results == SelectSeq(<<sp, lp, cp>>, LAMBDA r : r # None)
    IN  \A i \in 1..Len(all_results) : all_results[i][1]

\* lines 89-90: all_results = [r for r in [...] if r is not None];
\* success = all(all_results) if all_results else False
Verdict(sp, lp, cp) ==
    LET all_results == SelectSeq(<<sp, lp, cp>>, LAMBDA r : r # None)
    IN  IF all_results # <<>>
        THEN \A i \in 1..Len(all_results) : all_results[i][1]
        ELSE FALSE

\* lines 95-101 (duration is not modelled)
TestReport(success, sp, lp, cp) ==
    [success |-> success, system_passed |-> sp, load_passed |-> lp, chaos_passed |-> cp]

\* Mutant of HandlerFor: every mode is handled as staging.
HandlerFor_AlwaysStaging(mode) == "_handle_staging_results"

\* lines 104-107: the handler run dispatches to
HandlerFor(mode) ==
    IF mode = "staging" THEN "_handle_staging_results"
    ELSE IF mode = "pr" THEN "_handle_pr_results"
    ELSE "none"

\* lines 280-281
ShouldCreatePr(r, c) == r.success /\ c.create_pr

\* Mutant of ShouldSendEmail: the notification does not look at the verdict.
ShouldSendEmail_IgnoresVerdict(r, c) == c.send_email

\* lines 288-290
ShouldSendEmail(r, c) == ~r.success /\ c.send_email

\* line 385
StatusState(r) == IF r.success THEN "success" ELSE "failure"

\* src/cli.py line 66
ExitCode(r) == IF r.success THEN 0 ELSE 1

PyBool(b) == IF b THEN "True" ELSE "False"

Logged(name, detail) == \E i \in 1..Len(log) : log[i] = <<name, detail>>
Called(name) == \E i \in 1..Len(log) : log[i][1] = name

----------------------------------------------------------------------------
(* Initial states *)

\* sys.argv as the interpreter set it when the process started
ProgramArgv == <<"test-runner", "--mode", "--suite">>

\* An activity that has not started.
Idle == [pc |-> "idle"]

\* Nothing outside the orchestrator has started.
ExtIdle ==
    /\ cluster = {}
    /\ test = Idle
    /\ threads = <<>>
    /\ clock = 0
    /\ web = Idle
    /\ api_client = None

Init ==
    /\ entry \in {"cli", "api"}
    /\ env \in EnvValues
    /\ args \in IF entry = "cli" THEN ArgValues ELSE {NoArgs}
    /\ config = Unbound
    /\ suite = IF entry = "cli" THEN args.suite ELSE "system"
    /\ pc = IF entry = "cli" THEN "main" ELSE "caller"
    /\ system_passed = None
    /\ load_passed = None
    /\ chaos_passed = None
    /\ report = Unbound
    /\ exc = None
    /\ exit_code = None
    /\ log = <<>>
    /\ sys_argv = ProgramArgv
    /\ ExtIdle

Raise(e) ==
    /\ exc' = Some(e)
    /\ pc' = "raised"

----------------------------------------------------------------------------
(* src/cli.py: main *)

\* lines 50-51: config = TestConfig.from_mode(mode)
CliLoadConfig ==
    /\ pc = "main"
    /\ log' = Append(log, <<"from_mode", args.mode>>)
    /\ IF from_mode_raises(args.mode, env) # None
       THEN /\ Raise(from_mode_raises(args.mode, env)[1])
            /\ UNCHANGED config
       ELSE /\ config' = from_mode(args.mode, env)
            /\ pc' = "override"
            /\ UNCHANGED exc
    /\ UNCHANGED <<ext, entry, env, args, suite, system_passed, load_passed,
                   chaos_passed, report, exit_code>>

\* lines 53-59: override with the CLI options
CliOverride ==
    /\ pc = "override"
    /\ config' = [config EXCEPT
                    !.base_url = IF TruthyStr(args.base_url) THEN args.base_url[1] ELSE @,
                    !.timeout = IF TruthyInt(args.timeout) THEN args.timeout[1] ELSE @,
                    !.verbose = args.verbose]
    /\ pc' = "run"
    /\ UNCHANGED <<ext, entry, env, args, suite, system_passed, load_passed,
                   chaos_passed, report, exc, exit_code, log>>

\* line 66: sys.exit(0 if report.success else 1)
CliExit ==
    /\ pc = "returned"
    /\ entry = "cli"
    /\ exit_code' = Some(ExitCode(report))
    /\ pc' = "exited"
    /\ UNCHANGED <<ext, entry, env, args, config, suite, system_passed, load_passed,
                   chaos_passed, report, exc, log>>

\* An exception that nothing catches ends the interpreter with exit code 1,
\* a SystemExit with the code it carries.
CliUncaught ==
    /\ pc = "raised"
    /\ entry = "cli"
    /\ exit_code' = Some(IF exc = Some("SystemExit(0)") THEN 0 ELSE 1)
    /\ pc' = "exited"
    /\ UNCHANGED <<ext, entry, env, args, config, suite, system_passed, load_passed,
                   chaos_passed, report, exc, log>>

----------------------------------------------------------------------------
(* A caller of the classes other than main *)

\* config = TestConfig.from_mode(m) for any string m
ApiFromMode ==
    /\ pc = "caller"
    /\ \E m \in Modes \cup OtherModes :
         /\ log' = Append(log, <<"from_mode", m>>)
         /\ IF from_mode_raises(m, env) # None
            THEN /\ Raise(from_mode_raises(m, env)[1])
                 /\ UNCHANGED config
            ELSE /\ config' = from_mode(m, env)
                 /\ pc' = "have_config"
                 /\ UNCHANGED exc
    /\ UNCHANGED <<ext, entry, env, args, suite, system_passed, load_passed,
                   chaos_passed, report, exit_code>>

\* a configuration object of the caller's own
ApiGivenConfig ==
    /\ pc = "caller"
    /\ \E c \in ConfigObjects : config' = c
    /\ pc' = "have_config"
    /\ UNCHANGED <<ext, entry, env, args, suite, system_passed, load_passed,
                   chaos_passed, report, exc, exit_code, log>>

\* TestOrchestrator(config).run(s)
ApiRun ==
    /\ pc = "have_config"
    /\ \E s \in Suites : suite' = s
    /\ pc' = "run"
    /\ UNCHANGED <<ext, entry, env, args, config, system_passed, load_passed,
                   chaos_passed, report, exc, exit_code, log>>

----------------------------------------------------------------------------
(* src/orchestrator.py: TestOrchestrator.run *)

\* orchestrator.py:115-122 and 234-242: the options _run_system_tests and
\* _run_chaos_tests hand to pytest.main, of those src/tests/conftest.py
\* declares: --base-url is passed, --http-timeout is not.
PytestOptions(c) == [base_url |-> Some(c.base_url), http_timeout |-> None]

\* conftest.py:10-23: the defaults of the two options
BaseUrlDefault == "http://localhost:8080"
HttpTimeoutDefault == 60

\* request.config.getoption
getoption(options, name, default) ==
    IF options[name] = None THEN default ELSE options[name][1]

\* api_client.py:16-33: APIClient(base_url, timeout); sent is the history of
\* the requests it has sent
APIClient(base_url, timeout) == [base_url |-> base_url, timeout |-> timeout, sent |-> <<>>]

\* conftest.py:26-41: the fixtures base_url, timeout and api_client
ApiClientFixture(options) ==
    APIClient(getoption(options, "base_url", BaseUrlDefault),
              getoption(options, "http_timeout", HttpTimeoutDefault))

\* lines 73-76: the system suite starts
SystemStart ==
    /\ pc = "run"
    /\ IF ShouldRunSystem(suite, config.mode)
       THEN /\ log' = Append(log, <<"_run_system_tests", "start">>)
            /\ api_client' = Some(ApiClientFixture(PytestOptions(config)))
            /\ pc' = "system_running"
       ELSE /\ pc' = "load_check"
            /\ UNCHANGED <<log, api_client>>
    /\ UNCHANGED <<extNoClient, entry, env, args, config, suite, system_passed, load_passed,
                   chaos_passed, report, exc, exit_code>>

\* lines 111-135: _run_system_tests returns exit_code == 0 of pytest.main
SystemReturn ==
    /\ pc = "system_running"
    /\ \E pytest_exit_code \in {0, 1} :
         /\ system_passed' = Some(pytest_exit_code = 0)
         /\ log' = Append(log, <<"_run_system_tests", PyBool(pytest_exit_code = 0)>>)
    /\ pc' = "load_check"
    /\ UNCHANGED <<ext, entry, env, args, config, suite, load_passed, chaos_passed,
                   report, exc, exit_code>>

\* Mutant of LoadStart: the run stops running suites once the system suite
\* has failed.
LoadStart_FailFast ==
    /\ pc = "load_check"
    /\ IF ShouldRunLoad(suite, config.mode) /\ system_passed # Some(FALSE)
       THEN /\ log' = Append(log, <<"_run_load_tests", "start">>)
            /\ pc' = "load_running"
       ELSE /\ pc' = "chaos_check"
            /\ UNCHANGED log
    /\ UNCHANGED <<ext, entry, env, args, config, suite, system_passed, load_passed,
                   chaos_passed, report, exc, exit_code>>

\* lines 78-81: the load suite starts
LoadStart ==
    /\ pc = "load_check"
    /\ IF ShouldRunLoad(suite, config.mode)
       THEN /\ log' = Append(log, <<"_run_load_tests", "start">>)
            /\ pc' = "load_running"
       ELSE /\ pc' = "chaos_check"
            /\ UNCHANGED log
    /\ UNCHANGED <<ext, entry, env, args, config, suite, system_passed, load_passed,
                   chaos_passed, report, exc, exit_code>>

\* What can happen inside _run_load_tests (lines 159-211): the locustfile is
\* missing, importing locust raises, locust_main returns 0 or another code,
\* locust_main raises an Exception, or locust_main ends the way sys.exit does,
\* by raising SystemExit, which is no Exception.
LoadOutcomes == {"no_locustfile", "import_raises", "exit_0", "exit_nonzero", "locust_raises",
                 "sys_exit_0", "sys_exit_1"}

SystemExits == {"sys_exit_0", "sys_exit_1"}

\* line 194: what the call locust_main() did, if it was made
LocustCall(outcome) ==
    CASE outcome \in {"no_locustfile", "import_raises"} -> <<>>
      [] outcome = "exit_0" -> << <<"locust_main", "returned 0">> >>
      [] outcome = "exit_nonzero" -> << <<"locust_main", "returned nonzero">> >>
      [] outcome = "locust_raises" -> << <<"locust_main", "raised Exception">> >>
      [] OTHER -> << <<"locust_main", "raised SystemExit">> >>

\* lines 159-211: the boolean _run_load_tests returns
LoadResult(outcome) == outcome = "exit_0"

\* lines 164-173 and 191: sys.argv as set for Locust (the option values are
\* not modelled)
LocustArgv == <<"locust", "--locustfile", "--host", "--users", "--spawn-rate",
                "--run-time", "--headless", "--html", "--csv">>

\* lines 159-161 and 184-211: sys.argv when _run_load_tests returns.  The
\* restore of line 197 follows locust_main() inside the try and is in no
\* finally: it is skipped when locust_main raises.
ArgvAfterLoad(outcome, argv) ==
    CASE outcome \in {"no_locustfile", "import_raises"} -> argv
      [] outcome \in {"exit_0", "exit_nonzero"} -> argv
      [] OTHER -> LocustArgv

\* lines 137-211: _run_load_tests returns a boolean, or the SystemExit of
\* locust_main passes the except Exception of line 207 and leaves run.
LoadReturn ==
    /\ pc = "load_running"
    /\ \E outcome \in LoadOutcomes :
         /\ sys_argv' = ArgvAfterLoad(outcome, sys_argv)
         /\ IF outcome \in SystemExits
            THEN /\ log' = log \o LocustCall(outcome)
                 /\ Raise(IF outcome = "sys_exit_0" THEN "SystemExit(0)" ELSE "SystemExit(1)")
                 /\ UNCHANGED load_passed
            ELSE /\ load_passed' = Some(LoadResult(outcome))
                 /\ log' = (log \o LocustCall(outcome))
                              \o << <<"_run_load_tests", PyBool(LoadResult(outcome))>> >>
                 /\ pc' = "chaos_check"
                 /\ UNCHANGED exc
    /\ UNCHANGED <<extNoArgv, entry, env, args, config, suite, system_passed, chaos_passed,
                   report, exit_code>>

\* lines 83-86: the chaos suite starts
ChaosStart ==
    /\ pc = "chaos_check"
    /\ IF ShouldRunChaos(suite, config.mode)
       THEN /\ log' = Append(log, <<"_run_chaos_tests", "start">>)
            /\ api_client' = Some(ApiClientFixture(PytestOptions(config)))
            /\ pc' = "chaos_running"
       ELSE /\ pc' = "aggregate"
            /\ UNCHANGED <<log, api_client>>
    /\ UNCHANGED <<extNoClient, entry, env, args, config, suite, system_passed, load_passed,
                   chaos_passed, report, exc, exit_code>>

\* src/tests/chaos/conftest.py:10-40, the k8s_client fixture every chaos test
\* depends on (through namespace).  What the cluster lets it do: which
\* configuration loads ("incluster", "kubeconfig" after the in-cluster one
\* failed, or "none"), and whether the API answers.
K8sAccess ==
    {[config |-> c, reachable |-> r] :
        c \in {"incluster", "kubeconfig", "none"}, r \in BOOLEAN} \
    {[config |-> "none", reachable |-> FALSE]}

\* Mutant of K8sFixtureExits: an unreachable API is printed and the client is
\* returned all the same.
K8sFixtureExits_OnlyWithoutConfig(k) == k.config = "none"

\* lines 28 and 38: pytest.exit(..., returncode=1)
K8sFixtureExits(k) == k.config = "none" \/ ~k.reachable

\* lines 14-38: the calls the fixture makes, in order
K8sFixtureCalls(k) ==
    (CASE k.config = "incluster" -> << <<"load_incluster_config", "ok">> >>
       [] k.config = "kubeconfig" ->
             << <<"load_incluster_config", "ConfigException">>,
                <<"load_kube_config", "ok">> >>
       [] OTHER ->
             << <<"load_incluster_config", "ConfigException">>,
                <<"load_kube_config", "ConfigException">> >>)
    \o (IF k.config = "none" THEN <<>>
        ELSE << <<"get_api_resources", IF k.reachable THEN "ok" ELSE "raised">> >>)

\* The pytest session of the chaos suite: the fixture, then either the exit
\* of the session with return code 1 or the bodies of the tests (where the
\* experiments are created), which pass or fail.
ChaosSessionCalls(k, exits, tests_pass) ==
    K8sFixtureCalls(k)
      \o (IF exits THEN << <<"pytest.exit", "1">> >>
          ELSE << <<"chaos_test_bodies", IF tests_pass THEN "passed" ELSE "failed">> >>)

PytestExitCode(exits, tests_pass) == IF exits THEN 1 ELSE IF tests_pass THEN 0 ELSE 1

\* lines 213-256: _run_chaos_tests returns exit_code == 0 of pytest.main
ChaosReturn ==
    /\ pc = "chaos_running"
    /\ \E k \in K8sAccess, tests_pass \in BOOLEAN :
         LET exits == K8sFixtureExits(k)
             pytest_exit_code == PytestExitCode(exits, tests_pass)
         IN /\ exits => tests_pass
            /\ chaos_passed' = Some(pytest_exit_code = 0)
            /\ log' = (log \o ChaosSessionCalls(k, exits, tests_pass))
                         \o << <<"_run_chaos_tests", PyBool(pytest_exit_code = 0)>> >>
    /\ pc' = "aggregate"
    /\ UNCHANGED <<ext, entry, env, args, config, suite, system_passed, load_passed,
                   report, exc, exit_code>>

\* lines 88-101: the verdict and the report
Aggregate ==
    /\ pc = "aggregate"
    /\ report' = TestReport(Verdict(system_passed, load_passed, chaos_passed),
                            system_passed, load_passed, chaos_passed)
    /\ pc' = "dispatch"
    /\ UNCHANGED <<ext, entry, env, args, config, suite, system_passed, load_passed,
                   chaos_passed, exc, exit_code, log>>

\* lines 103-107: the handler of the mode
Dispatch ==
    /\ pc = "dispatch"
    /\ pc' = IF HandlerFor(config.mode) = "none" THEN "return" ELSE HandlerFor(config.mode)
    /\ UNCHANGED <<ext, entry, env, args, config, suite, system_passed, load_passed,
                   chaos_passed, report, exc, exit_code, log>>

\* lines 258-265: _handle_pr_results prints the summary
HandlePrResults ==
    /\ pc = "_handle_pr_results"
    /\ log' = Append(log, <<"_handle_pr_results", "print">>)
    /\ pc' = "return"
    /\ UNCHANGED <<ext, entry, env, args, config, suite, system_passed, load_passed,
                   chaos_passed, report, exc, exit_code>>

\* line 109: return report
Return ==
    /\ pc = "return"
    /\ pc' = "returned"
    /\ UNCHANGED <<ext, entry, env, args, config, suite, system_passed, load_passed,
                   chaos_passed, report, exc, exit_code, log>>

----------------------------------------------------------------------------
(* src/orchestrator.py: the staging post-test actions *)

\* lines 267-277: print the report, then read config.post_results_to_github
HandleStagingResults ==
    /\ pc = "_handle_staging_results"
    /\ log' = Append(log, <<"_handle_staging_results", "print">>)
    /\ IF ~HasAttr(config, "post_results_to_github")
       THEN Raise("AttributeError")
       ELSE /\ pc' = IF config.post_results_to_github
                     THEN "_post_results_to_github" ELSE "staging_verdict"
            /\ UNCHANGED exc
    /\ UNCHANGED <<ext, entry, env, args, config, suite, system_passed, load_passed,
                   chaos_passed, report, exit_code>>

\* What the GitHub client can do inside the try of _post_results_to_github
\* (lines 376-423): a call before create_status raises, create_status raises,
\* create_comment raises, or every call succeeds.
PostOutcomes == {"get_commit_raises", "create_status_raises", "create_comment_raises", "ok"}

\* Mutant of PostCalls: each client call sits in a try of its own, so the
\* comment is still created after create_status has raised.
PostCalls_CommentAfterFailedStatus(r, outcome) ==
    CASE outcome = "get_commit_raises" -> << <<"get_commit", "raised">> >>
      [] outcome = "create_status_raises" ->
            << <<"get_commit", "ok">>, <<"create_status", "raised">>,
               <<"create_comment", "ok">> >>
      [] outcome = "create_comment_raises" ->
            << <<"get_commit", "ok">>, <<"create_status", StatusState(r)>>,
               <<"create_comment", "raised">> >>
      [] OTHER ->
            << <<"get_commit", "ok">>, <<"create_status", StatusState(r)>>,
               <<"create_comment", "ok">> >>

\* lines 380-415: the client calls made under one outcome, in order (get_commit
\* stands for the calls before create_status: Github, get_repo, get_commit)
PostCalls(r, outcome) ==
    CASE outcome = "get_commit_raises" -> << <<"get_commit", "raised">> >>
      [] outcome = "create_status_raises" ->
            << <<"get_commit", "ok">>, <<"create_status", "raised">> >>
      [] outcome = "create_comment_raises" ->
            << <<"get_commit", "ok">>, <<"create_status", StatusState(r)>>,
               <<"create_comment", "raised">> >>
      [] OTHER ->
            << <<"get_commit", "ok">>, <<"create_status", StatusState(r)>>,
               <<"create_comment", "ok">> >>

\* Mutant of PostResultsToGithub: the client calls are in no try, so a call
\* that raises ends the run.
PostResultsToGithub_NoTry ==
    /\ pc = "_post_results_to_github"
    /\ IF ~TruthyStr(config.github_token)
       THEN /\ log' = Append(log, <<"_post_results_to_github", "skipped">>)
            /\ pc' = "staging_verdict"
            /\ UNCHANGED exc
       ELSE IF ~HasAttr(config, "github_commit_sha")
       THEN /\ log' = Append(log, <<"_post_results_to_github", "raised">>)
            /\ Raise("AttributeError")
       ELSE IF ~TruthyStr(config.github_commit_sha)
       THEN /\ log' = Append(log, <<"_post_results_to_github", "skipped">>)
            /\ pc' = "staging_verdict"
            /\ UNCHANGED exc
       ELSE \E outcome \in PostOutcomes :
              /\ log' = Append(log, <<"_post_results_to_github", "try">>)
                          \o PostCalls(report, outcome)
              /\ IF outcome = "ok"
                 THEN pc' = "staging_verdict" /\ UNCHANGED exc
                 ELSE Raise("GithubException")
    /\ UNCHANGED <<ext, entry, env, args, config, suite, system_passed, load_passed,
                   chaos_passed, report, exit_code>>

\* lines 362-423: _post_results_to_github
PostResultsToGithub ==
    /\ pc = "_post_results_to_github"
    /\ IF ~TruthyStr(config.github_token)
       THEN /\ log' = Append(log, <<"_post_results_to_github", "skipped">>)
            /\ pc' = "staging_verdict"
            /\ UNCHANGED exc
       ELSE IF ~HasAttr(config, "github_commit_sha")
       THEN /\ log' = Append(log, <<"_post_results_to_github", "raised">>)
            /\ Raise("AttributeError")
       ELSE IF ~TruthyStr(config.github_commit_sha)
       THEN /\ log' = Append(log, <<"_post_results_to_github", "skipped">>)
            /\ pc' = "staging_verdict"
            /\ UNCHANGED exc
       ELSE /\ \E outcome \in PostOutcomes :
                 log' = Append(log, <<"_post_results_to_github", "try">>)
                          \o PostCalls(report, outcome)
            /\ pc' = "staging_verdict"
            /\ UNCHANGED exc
    /\ UNCHANGED <<ext, entry, env, args, config, suite, system_passed, load_passed,
                   chaos_passed, report, exit_code>>

\* lines 279-294: promotion PR on success, failure notification otherwise
StagingVerdict ==
    /\ pc = "staging_verdict"
    /\ IF ShouldCreatePr(report, config)
       THEN pc' = "_create_promotion_pr" /\ UNCHANGED log
       ELSE IF ShouldSendEmail(report, config)
       THEN /\ log' = Append(log, <<"_send_failure_email", "print">>)
            /\ pc' = "return"
       ELSE pc' = "return" /\ UNCHANGED log
    /\ UNCHANGED <<ext, entry, env, args, config, suite, system_passed, load_passed,
                   chaos_passed, report, exc, exit_code>>

\* What the GitHub client can do inside the try of _create_promotion_pr
\* (lines 304-360): a call before create_pull raises, create_pull raises, or
\* every call succeeds.
PrOutcomes == {"get_repo_raises", "create_pull_raises", "ok"}

\* lines 308-351: the client calls made under one outcome.  The body of the
\* PR reads config.github_commit_sha (line 321) inside the try: when the
\* attribute is missing the AttributeError is caught and create_pull is
\* never reached.
PrCalls(c, outcome) ==
    IF outcome = "get_repo_raises"
    THEN << <<"get_repo", "raised">> >>
    ELSE IF ~HasAttr(c, "github_commit_sha")
    THEN << <<"get_repo", "ok">> >>
    ELSE IF outcome = "create_pull_raises"
    THEN << <<"get_repo", "ok">>, <<"create_pull", "raised">> >>
    ELSE << <<"get_repo", "ok">>, <<"create_pull", "ok">> >>

\* Mutant of CreatePromotionPr: the token is not tested before the client is
\* used.
CreatePromotionPr_NoTokenCheck ==
    /\ pc = "_create_promotion_pr"
    /\ \E outcome \in PrOutcomes :
         log' = Append(log, <<"_create_promotion_pr", "try">>) \o PrCalls(config, outcome)
    /\ pc' = "return"
    /\ UNCHANGED <<ext, entry, env, args, config, suite, system_passed, load_passed,
                   chaos_passed, report, exc, exit_code>>

\* lines 298-360: _create_promotion_pr
CreatePromotionPr ==
    /\ pc = "_create_promotion_pr"
    /\ IF ~TruthyStr(config.github_token)
       THEN log' = Append(log, <<"_create_promotion_pr", "skipped">>)
       ELSE \E outcome \in PrOutcomes :
              log' = Append(log, <<"_create_promotion_pr", "try">>) \o PrCalls(config, outcome)
    /\ pc' = "return"
    /\ UNCHANGED <<ext, entry, env, args, config, suite, system_passed, load_passed,
                   chaos_passed, report, exc, exit_code>>

----------------------------------------------------------------------------

Next ==
    \/ CliLoadConfig
    \/ CliOverride
    \/ CliExit
    \/ CliUncaught
    \/ ApiFromMode
    \/ ApiGivenConfig
    \/ ApiRun
    \/ SystemStart
    \/ SystemReturn
    \/ LoadStart
    \/ LoadReturn
    \/ ChaosStart
    \/ ChaosReturn
    \/ Aggregate
    \/ Dispatch
    \/ HandlePrResults
    \/ HandleStagingResults
    \/ PostResultsToGithub
    \/ StagingVerdict
    \/ CreatePromotionPr
    \/ Return

Spec == Init /\ [][Next]_vars

----------------------------------------------------------------------------
(* Vocabulary of the properties *)

Bound(obj) == obj # Unbound

\* The suite runner n returned (with any result) / returned True.
Executed(n) == Logged(n, "True") \/ Logged(n, "False")
Passed(n) == Logged(n, "True")

\* The run is over: run returned, the process exited, or an exception escaped.
RunOver == pc \in {"returned", "exited", "raised"}

\* run got as far as building the report (every selected suite has returned).
SuitesDone == Bound(report)

PostTestCalls ==
    {"_post_results_to_github", "get_commit", "create_status", "create_comment",
     "_create_promotion_pr", "get_repo", "create_pull", "_send_failure_email"}

\* The configuration came from TestConfig.from_mode.
FromModeConfig == Called("from_mode") /\ Bound(config)

----------------------------------------------------------------------------
(* C1 *)

\* C1: whenever run has built its report, report.success is true if and only
\* if at least one suite runner was executed and every executed runner
\* returned True; a suite that was not executed has no influence.
C1_VerdictIffAllExecutedPassed ==
    Bound(report) =>
        (report.success <=>
            /\ \E n \in SuiteNames : Executed(n)
            /\ \A n \in SuiteNames : Executed(n) => Passed(n))

\* A staging run of the load suite alone that passed: two suites not executed.
C1_Witness ==
    /\ pc = "returned"
    /\ report.success
    /\ Executed("_run_load_tests")
    /\ ~Executed("_run_system_tests")
    /\ ~Executed("_run_chaos_tests")

----------------------------------------------------------------------------
(* C2 *)

\* C2: in staging mode result posting comes before any promotion-PR creation
\* or failure notification and, when enabled, has happened by then; a
\* promotion-PR creation is attempted only when report.success is true and
\* create_pr is set; a failure notification only when report.success is false
\* and send_email is set; and no run attempts both.
C2_StagingActionsOrderedAndExclusive ==
    (Bound(config) /\ config.mode = "staging") =>
        /\ Called("_create_promotion_pr") => (report.success /\ config.create_pr)
        /\ Called("_send_failure_email") => (~report.success /\ config.send_email)
        /\ ~(Called("_create_promotion_pr") /\ Called("_send_failure_email"))
        /\ \A i, j \in 1..Len(log) :
              (/\ log[i][1] \in {"_post_results_to_github", "get_commit",
                                 "create_status", "create_comment"}
               /\ log[j][1] \in {"_create_promotion_pr", "get_repo", "create_pull",
                                 "_send_failure_email"})
              => i < j
        /\ (Called("_create_promotion_pr") \/ Called("_send_failure_email"))
              => (config.post_results_to_github => Called("_post_results_to_github"))

\* A staging run that posted its results and then created the promotion PR.
C2_Witness ==
    /\ pc = "returned"
    /\ config.mode = "staging"
    /\ Logged("create_status", "success")
    /\ Logged("create_pull", "ok")

----------------------------------------------------------------------------
(* C3 *)

\* C3: with a configuration produced by TestConfig.from_mode, once the suite
\* runners have returned no exception escapes run.
C3_NoExceptionEscapesRun ==
    (FromModeConfig /\ SuitesDone) => exc = None

----------------------------------------------------------------------------
(* C4 *)

\* C4: a promotion PR is created only after the system, load and chaos suites
\* have each been executed and each passed in that run.
C4_PrOnlyWhenAllThreePassed ==
    Logged("create_pull", "ok") =>
        \A n \in SuiteNames : Executed(n) /\ Passed(n)

----------------------------------------------------------------------------
(* C5 *)

\* C5: a pr-mode run makes none of the post-test calls (no commit status or
\* comment, no promotion PR, no failure notification) and does not enter the
\* staging handler; when it returns it has printed the PR summary.
C5_PrModeOnlyPrints ==
    (Bound(config) /\ config.mode = "pr") =>
        /\ \A i \in 1..Len(log) :
              log[i][1] \notin PostTestCalls \cup {"_handle_staging_results"}
        /\ pc = "returned" => Logged("_handle_pr_results", "print")

\* A pr-mode run that passed, on a configuration with create_pr set and a token.
C5_Witness ==
    /\ pc = "returned"
    /\ config.mode = "pr"
    /\ config.create_pr
    /\ TruthyStr(config.github_token)
    /\ report.success

----------------------------------------------------------------------------
(* C6 *)

\* C6: the load and chaos runners are invoked only in staging mode, and the
\* system runner is invoked, in both modes, exactly when the suite is
\* 'system' or 'all'.
C6_LoadAndChaosOnlyInStaging ==
    Bound(config) =>
        /\ Called("_run_load_tests") => config.mode = "staging"
        /\ Called("_run_chaos_tests") => config.mode = "staging"
        /\ SuitesDone => (Called("_run_system_tests") <=> suite \in {"system", "all"})

\* A pr-mode run of suite 'all': the system suite ran, the other two did not.
C6_Witness ==
    /\ SuitesDone
    /\ config.mode = "pr"
    /\ suite = "all"
    /\ Executed("_run_system_tests")
    /\ ~Called("_run_load_tests")
    /\ ~Called("_run_chaos_tests")

----------------------------------------------------------------------------
(* C7 *)

\* Where an event of the history belongs in a run: before the run (0), the
\* system suite (1 start, 2 return), the load suite (3, 4), the chaos suite
\* (5, 6), after the suites (7).
Phase(e) ==
    CASE e[1] = "from_mode" -> 0
      [] e[1] = "_run_system_tests" -> IF e[2] = "start" THEN 1 ELSE 2
      [] e[1] = "_run_load_tests" -> IF e[2] = "start" THEN 3 ELSE 4
      [] e[1] = "_run_chaos_tests" -> IF e[2] = "start" THEN 5 ELSE 6
      [] OTHER -> 7

\* The calls the history records from inside a suite.
InnerCalls ==
    {"locust_main", "load_incluster_config", "load_kube_config", "get_api_resources",
     "pytest.exit", "chaos_test_bodies"}

\* C7: the suites run in the order system, load, chaos, each started at most
\* once and each returning before anything else happens; a failed earlier
\* suite does not keep a later selected suite from running; and every
\* post-test action comes after the last suite has returned.
C7_SuitesInSequence ==
    LET IsRunEvent(e) == e[1] \notin InnerCalls
        run_log == SelectSeq(log, IsRunEvent)
    IN /\ \A i, j \in 1..Len(run_log) :
             i < j => /\ Phase(run_log[i]) <= Phase(run_log[j])
                      /\ Phase(run_log[i]) \in 1..6 => Phase(run_log[i]) < Phase(run_log[j])
       /\ \A i \in 1..Len(run_log) :
             (run_log[i][2] = "start" /\ i < Len(run_log)) =>
                 /\ run_log[i+1][1] = run_log[i][1]
                 /\ run_log[i+1][2] \in {"True", "False"}
       /\ SuitesDone =>
             /\ Executed("_run_load_tests") <=> (suite \in {"all", "load"} /\ config.mode = "staging")
             /\ Executed("_run_chaos_tests") <=> (suite \in {"all", "chaos"} /\ config.mode = "staging")
       /\ (\E i \in 1..Len(run_log) : Phase(run_log[i]) = 7) => SuitesDone

\* A staging run of suite 'all' whose system suite failed: load and chaos
\* still ran, in order, and the failure notification came last.
C7_Witness ==
    /\ pc = "returned"
    /\ suite = "all"
    /\ Logged("_run_system_tests", "False")
    /\ Executed("_run_load_tests")
    /\ Executed("_run_chaos_tests")
    /\ Logged("_send_failure_email", "print")

----------------------------------------------------------------------------
(* C8 *)

\* C8: the exit code of the CLI process is 0 if and only if the success
\* verdict of the report is true, and 1 otherwise.
C8_ExitCodeIffSuccess ==
    (entry = "cli" /\ exit_code # None /\ Bound(report)) =>
        exit_code = Some(IF report.success THEN 0 ELSE 1)

----------------------------------------------------------------------------
(* C9 *)

\* C9: every staging run on a from_mode configuration with a GitHub token and
\* a commit SHA in the environment has, when it is over, posted a commit
\* status whose state is 'success' exactly when report.success is true.
C9_StagingAlwaysPostsStatus ==
    (/\ FromModeConfig
     /\ config.mode = "staging"
     /\ TruthyStr(env.GITHUB_TOKEN)
     /\ TruthyStr(env.GITHUB_SHA)
     /\ SuitesDone
     /\ RunOver) =>
        Logged("create_status", IF report.success THEN "success" ELSE "failure")

----------------------------------------------------------------------------
(* C10 *)

\* The mode the first call of from_mode was given.
ModeGiven == log[1][2]

\* C10: the configuration from_mode yields for 'pr' has create_pr and
\* send_email false and no GitHub token; the one it yields for 'staging' has
\* create_pr and send_email true; any other mode raises ValueError and yields
\* no configuration; and 'pr' and 'staging' do yield a configuration whenever
\* TIMEOUT is unset or a decimal literal.
C10_FromModeCapabilities ==
    Called("from_mode") =>
        /\ (ModeGiven = "pr" /\ Bound(config)) =>
              /\ config.mode = "pr"
              /\ ~config.create_pr
              /\ ~config.send_email
              /\ config.github_token = None
        /\ (ModeGiven = "staging" /\ Bound(config)) =>
              /\ config.mode = "staging"
              /\ config.create_pr
              /\ config.send_email
        /\ ModeGiven \notin {"pr", "staging"} =>
              /\ ~Bound(config)
              /\ exc = Some("ValueError")
        /\ (ModeGiven \in {"pr", "staging"} /\ env.TIMEOUT \in {None, Some("30")}) =>
              Bound(config)

\* from_mode was given a mode it does not know and raised.
C10_Witness ==
    /\ Called("from_mode")
    /\ ModeGiven = "prod"
    /\ pc = "raised"
    /\ env.GITHUB_TOKEN = Some("ghp_tok")

----------------------------------------------------------------------------
(* Vocabulary of the GitHub properties *)

\* The calls that contact GitHub.
GithubPostCalls == {"get_commit", "create_status", "create_comment"}
GithubPrCalls == {"get_repo", "create_pull"}
GithubCalls == GithubPostCalls \cup GithubPrCalls

GithubContacted(calls) == \E i \in 1..Len(log) : log[i][1] \in calls
GithubCallRaised ==
    \E i \in 1..Len(log) : log[i][1] \in GithubCalls /\ log[i][2] = "raised"

\* What the report has to say, read off the history: each suite field is the
\* result its runner returned (None if it did not run) and success is the
\* verdict over the suites that ran.
FieldFor(n) ==
    IF Logged(n, "True") THEN Some(TRUE)
    ELSE IF Logged(n, "False") THEN Some(FALSE)
    ELSE None

ReportAsComputed ==
    /\ report.system_passed = FieldFor("_run_system_tests")
    /\ report.load_passed = FieldFor("_run_load_tests")
    /\ report.chaos_passed = FieldFor("_run_chaos_tests")
    /\ report.success <=>
          /\ \E n \in SuiteNames : Executed(n)
          /\ \A n \in SuiteNames : Executed(n) => Passed(n)

Count(name) == Cardinality({i \in 1..Len(log) : log[i][1] = name})

----------------------------------------------------------------------------
(* C11 *)

\* C11: once a GitHub client call has raised, no exception has escaped, the
\* report is still the one run computed, the run goes on until it has
\* returned the report, and an exit code, if there is one, is the verdict's.
C11_GithubFailureIsCaught ==
    GithubCallRaised =>
        /\ exc = None
        /\ pc # "raised"
        /\ ReportAsComputed
        /\ pc = "returned" \/ ENABLED Next
        /\ exit_code # None => exit_code = Some(IF report.success THEN 0 ELSE 1)

\* A run that returned its report after create_status and create_pull both
\* raised.
C11_Witness ==
    /\ pc = "returned"
    /\ Logged("create_status", "raised")
    /\ Logged("create_pull", "raised")
    /\ report.success

----------------------------------------------------------------------------
(* C12 *)

\* C12: with github_token unset no call contacts GitHub; with the commit SHA
\* unset no call of _post_results_to_github contacts GitHub; in both cases
\* the method returns (no exception escapes) and the report stays the one run
\* computed.
C12_NoGithubCallWithoutCredentials ==
    Bound(config) =>
        /\ ~TruthyStr(config.github_token) =>
              /\ ~GithubContacted(GithubCalls)
              /\ Called("_post_results_to_github") => exc = None
              /\ Called("_create_promotion_pr") => exc = None
        /\ (HasAttr(config, "github_commit_sha") /\ ~TruthyStr(config.github_commit_sha)) =>
              /\ ~GithubContacted(GithubPostCalls)
              /\ Called("_post_results_to_github") => exc = None
        /\ (Logged("_post_results_to_github", "skipped")
              \/ Logged("_create_promotion_pr", "skipped")) => ReportAsComputed

\* A passing staging run without a token: both methods returned early.
C12_Witness ==
    /\ pc = "returned"
    /\ ~TruthyStr(config.github_token)
    /\ Logged("_post_results_to_github", "skipped")
    /\ Logged("_create_promotion_pr", "skipped")
    /\ report.success

----------------------------------------------------------------------------
(* C16 *)

\* C16: whenever _run_load_tests has returned, sys.argv is what it was before
\* the call.
C16_LoadTestsRestoreArgv ==
    Executed("_run_load_tests") => sys_argv = ProgramArgv

----------------------------------------------------------------------------
(* C20 *)

\* C20: the commit status is created before the commit comment, the comment
\* is never created once creating the status has raised, and a run creates at
\* most one status and one comment.
C20_StatusBeforeComment ==
    /\ \A i, j \in 1..Len(log) :
          (log[i][1] = "create_comment" /\ log[j][1] = "create_status") => j < i
    /\ Called("create_comment") =>
          (Logged("create_status", "success") \/ Logged("create_status", "failure"))
    /\ Logged("create_status", "raised") => ~Called("create_comment")
    /\ Count("create_status") <= 1
    /\ Count("create_comment") <= 1

\* A run in which creating the status raised: no comment, and the run went on.
C20_Witness ==
    /\ pc = "returned"
    /\ Logged("create_status", "raised")
    /\ ~Called("create_comment")

----------------------------------------------------------------------------
(* Specifications of the parts outside the orchestrator start from an
   orchestrator that is not running. *)

NoEnv == [BASE_URL |-> None, TIMEOUT |-> None, GITHUB_TOKEN |-> None,
          GITHUB_SHA |-> None]

OrchIdle ==
    /\ entry = "none"
    /\ env = NoEnv
    /\ args = NoArgs
    /\ config = Unbound
    /\ suite = "system"
    /\ pc = "idle"
    /\ system_passed = None
    /\ load_passed = None
    /\ chaos_passed = None
    /\ report = Unbound
    /\ exc = None
    /\ exit_code = None
    /\ log = <<>>

----------------------------------------------------------------------------
(* src/main.py: the FastAPI application and its /health endpoint *)

MaxRequests == 3

\* The namespace of src/config.py: the names the module binds at top level.
\* It binds no name settings.
ConfigModule == [os |-> "module", Literal |-> "typing", BaseModel |-> "class",
                 Field |-> "function", TestConfig |-> "class"]

\* A settings object, were one bound in src.config before src.main is
\* imported: main.py reads only its ENVIRONMENT.
Settings == [ENVIRONMENT : {"development", "test", "production"}]

\* src.config as shipped, or with a settings object put into it by whoever
\* starts the application.
ConfigModules == {ConfigModule} \cup {[settings |-> st] @@ ConfigModule : st \in Settings}

\* What db.execute(select(text("1"))) does: returns, or raises an Exception.
DbOutcomes == {"ok", "OperationalError", "TimeoutError"}

\* main.py:43-49
DbStatus(outcome) == IF outcome = "ok" THEN "connected" ELSE "disconnected"

\* main.py:50-54
HealthResponse(db_status, st) ==
    [status |-> "healthy", database |-> db_status, environment |-> st.ENVIRONMENT]

\* The application is started: the interpreter has src.config loaded.
WebStart ==
    /\ web = Idle
    /\ \E m \in ConfigModules :
         web' = [pc |-> "import_main", module |-> m, served |-> <<>>]
    /\ UNCHANGED <<orch, sys_argv, cluster, test, threads, clock, api_client>>

\* main.py:1-18: importing src.main; line 11 is from src.config import settings
WebImportMain ==
    /\ web.pc = "import_main"
    /\ web' = [web EXCEPT !.pc = IF HasAttr(web.module, "settings")
                                 THEN "serving" ELSE "ImportError"]
    /\ UNCHANGED <<orch, sys_argv, cluster, test, threads, clock, api_client>>

\* main.py:32-54: health_check, for one GET /health
HealthCheck ==
    /\ web.pc = "serving"
    /\ Len(web.served) < MaxRequests
    /\ \E outcome \in DbOutcomes :
         web' = [web EXCEPT !.served =
                    Append(@, [db |-> outcome,
                               response |-> Some(HealthResponse(DbStatus(outcome),
                                                                web.module.settings))])]
    /\ UNCHANGED <<orch, sys_argv, cluster, test, threads, clock, api_client>>

\* A GET /health sent to an application whose import failed: there is no app
\* object to answer it.
HealthUnanswered ==
    /\ web.pc = "ImportError"
    /\ Len(web.served) < MaxRequests
    /\ \E outcome \in DbOutcomes :
         web' = [web EXCEPT !.served = Append(@, [db |-> outcome, response |-> None])]
    /\ UNCHANGED <<orch, sys_argv, cluster, test, threads, clock, api_client>>

InitHealth == OrchIdle /\ sys_argv = ProgramArgv /\ ExtIdle

NextHealth == WebStart \/ WebImportMain \/ HealthCheck \/ HealthUnanswered

SpecHealth == InitHealth /\ [][NextHealth]_vars

----------------------------------------------------------------------------
(* C13 *)

\* C13: every GET /health is answered with status 'healthy', with 'database'
\* 'connected' exactly when the query succeeded, and with exactly the keys
\* status, database and environment.
C13_HealthAlwaysHealthy ==
    HasAttr(web, "served") =>
        \A i \in 1..Len(web.served) :
            /\ web.served[i].response # None
            /\ DOMAIN web.served[i].response[1] = {"status", "database", "environment"}
            /\ web.served[i].response[1].status = "healthy"
            /\ web.served[i].response[1].database = "connected" <=> web.served[i].db = "ok"
            /\ web.served[i].response[1].database = "disconnected" <=> web.served[i].db # "ok"

----------------------------------------------------------------------------
(* src/tests/chaos/helpers/chaos_helper.py: ChaosHelper *)

\* Strings whose letters matter are sequences of characters.
PodChaos == <<"P", "o", "d", "C", "h", "a", "o", "s">>
NetworkChaos == <<"N", "e", "t", "w", "o", "r", "k", "C", "h", "a", "o", "s">>
StressChaos == <<"S", "t", "r", "e", "s", "s", "C", "h", "a", "o", "s">>
Kinds == {PodChaos, NetworkChaos, StressChaos}

\* str.lower, on the letters the kinds are written with
LowerChar(c) ==
    CASE c = "P" -> "p"
      [] c = "N" -> "n"
      [] c = "S" -> "s"
      [] c = "C" -> "c"
      [] OTHER -> c

Lower(str) == [i \in DOMAIN str |-> LowerChar(str[i])]

\* str.endswith
EndsWith(str, suffix) ==
    /\ Len(str) >= Len(suffix)
    /\ SubSeq(str, Len(str) - Len(suffix) + 1, Len(str)) = suffix

\* chaos_helper.py:86, 149, 198: the plural create_pod_chaos,
\* create_network_chaos and create_stress_chaos pass to the API
CreatePlural(kind) ==
    CASE kind = PodChaos -> <<"p", "o", "d", "c", "h", "a", "o", "s">>
      [] kind = NetworkChaos -> <<"n", "e", "t", "w", "o", "r", "k", "c", "h", "a", "o", "s">>
      [] kind = StressChaos -> <<"s", "t", "r", "e", "s", "s", "c", "h", "a", "o", "s">>

\* chaos_helper.py:210 and 231: the plural delete_chaos and get_chaos_status
\* compute from the kind
DeletePlural(kind) ==
    IF EndsWith(kind, <<"s">>)
    THEN Lower(kind) \o <<"e", "s">>
    ELSE Lower(kind) \o <<"s">>

\* chaos_helper.py:36-39: prefix plus a fresh id (the n-th test's id is n)
GenerateName(n) == <<"chaos", n>>

\* The custom-objects API: an object is addressed by its plural and its name.
\* delete_namespaced_custom_object on an address that holds no object, or on a
\* server that cannot be reached, raises.
ApiOutcomes == {"reached", "unreachable"}

DeleteRaises(plural, name, api) ==
    api = "unreachable" \/ <<plural, name>> \notin cluster

----------------------------------------------------------------------------
(* src/tests/chaos/test_*.py: the chaos tests, and run_locust_load *)

MaxTests == 2

\* The ten tests: the kind of their experiment, whether they start the
\* load thread, whether they may skip before the try, and whether assertions
\* follow the join.
ChaosTest(name, kind, load, skips, final) ==
    [name |-> name, kind |-> kind, load |-> load, skips |-> skips, final |-> final]

ChaosTests ==
    {ChaosTest("test_pod_deletion_recovery", PodChaos, FALSE, FALSE, FALSE),
     ChaosTest("test_multiple_pod_failures", PodChaos, FALSE, TRUE, FALSE),
     ChaosTest("test_network_latency", NetworkChaos, FALSE, FALSE, FALSE),
     ChaosTest("test_network_partition", NetworkChaos, FALSE, FALSE, FALSE),
     ChaosTest("test_packet_loss", NetworkChaos, FALSE, FALSE, FALSE),
     ChaosTest("test_cpu_stress", StressChaos, FALSE, FALSE, FALSE),
     ChaosTest("test_memory_stress", StressChaos, FALSE, FALSE, FALSE),
     ChaosTest("test_combined_cpu_memory_stress", StressChaos, FALSE, FALSE, FALSE),
     ChaosTest("test_load_with_pod_failures", PodChaos, TRUE, FALSE, TRUE),
     ChaosTest("test_load_with_network_latency", NetworkChaos, TRUE, FALSE, FALSE)}

\* test_combined_load_chaos.py:32-44: the argument list run_locust_load puts
\* into sys.argv
LoadThreadArgv == <<"locust", "--locustfile", "--host", "--users", "--spawn-rate",
                    "--run-time", "--headless", "--only-summary">>

TestsRun == IF HasAttr(test, "n") THEN test.n ELSE 0

\* What pytest reports for a test whose body ended with the pending exception.
Result(pending) == IF pending = None THEN "passed" ELSE "failed"

TraceHas(e, d) == \E i \in 1..Len(test.trace) : test.trace[i] = <<e, d>>
TraceCount(e) == Cardinality({i \in 1..Len(test.trace) : test.trace[i][1] = e})

\* Mutant of FinalResult: the delete in the finally block is in no try, so a
\* failing delete fails the test.
FinalResult_DeleteNotSwallowed(pending, delete_raised) ==
    IF delete_raised THEN "failed" ELSE Result(pending)

\* The finally block of every test: the exception of a failing delete is
\* caught and printed, the pending exception (if any) goes on.
FinalResult(pending, delete_raised) == Result(pending)

\* pytest calls the next test function; test_multiple_pod_failures may skip
\* before its try (test_pod_failures.py:156-157).
TestStart ==
    /\ test.pc \in {"idle", "ended"}
    /\ TestsRun < MaxTests
    /\ \E t \in ChaosTests, skip \in BOOLEAN :
         /\ skip => t.skips
         /\ test' = [pc |-> IF skip THEN "ended"
                            ELSE IF t.load THEN "start_thread" ELSE "create",
                     t |-> t,
                     n |-> TestsRun + 1,
                     chaos_name |-> None,
                     joined |-> FALSE,
                     pending |-> None,
                     trace |-> <<>>,
                     result |-> IF skip THEN Some("skipped") ELSE None]
    /\ UNCHANGED <<orch, sys_argv, cluster, threads, clock, web, api_client>>

\* test_combined_load_chaos.py:84-89 and 196-201: locust_thread.start()
TestStartThread ==
    /\ test.pc = "start_thread"
    /\ threads' = Append(threads, [pc |-> "import", original_argv |-> None])
    /\ test' = [test EXCEPT !.pc = "create",
                            !.trace = Append(@, <<"thread_start", "ok">>)]
    /\ UNCHANGED <<orch, sys_argv, cluster, clock, web, api_client>>

\* chaos.create_*_chaos(...) and chaos_name = chaos_obj["metadata"]["name"]
\* (chaos_helper.py:41-200); a raising create goes to the finally block.
TestCreate ==
    /\ test.pc = "create"
    /\ \E api \in ApiOutcomes :
         IF api = "reached"
         THEN /\ cluster' = cluster \cup {<<CreatePlural(test.t.kind), GenerateName(test.n)>>}
              /\ test' = [test EXCEPT !.pc = "body",
                                      !.chaos_name = Some(GenerateName(test.n)),
                                      !.trace = Append(@, <<"create", "ok">>)]
         ELSE /\ test' = [test EXCEPT !.pc = "finally",
                                      !.pending = Some("ApiException"),
                                      !.trace = Append(@, <<"create", "raised">>)]
              /\ UNCHANGED cluster
    /\ UNCHANGED <<orch, sys_argv, threads, clock, web, api_client>>

\* The monitoring and the assertions between the creation and the finally
\* block (the join, in the tests that start the load thread).
TestBody ==
    /\ test.pc = "body"
    /\ \E outcome \in {"pass", "AssertionError", "Exception"} :
         test' = IF outcome = "pass"
                 THEN [test EXCEPT !.pc = IF test.t.load THEN "join" ELSE "finally"]
                 ELSE [test EXCEPT !.pc = "finally", !.pending = Some(outcome)]
    /\ UNCHANGED <<orch, sys_argv, cluster, threads, clock, web, api_client>>

\* test_combined_load_chaos.py:143-153 and 261-262: join(timeout=30) if the
\* thread is alive (the join returns when the thread ends or the timeout
\* passes), then the final assertions of test_load_with_pod_failures.
TestJoin ==
    /\ test.pc = "join"
    /\ \E final \in {"pass", "AssertionError"} :
         /\ final = "AssertionError" => test.t.final
         /\ test' = [test EXCEPT
                       !.pc = "finally",
                       !.joined = TRUE,
                       !.pending = IF final = "pass" THEN None ELSE Some(final),
                       !.trace = Append(@, <<"join",
                                   IF threads[Len(threads)].pc \in {"done", "dead"}
                                   THEN "not_alive" ELSE "timeout=30">>)]
    /\ UNCHANGED <<orch, sys_argv, cluster, threads, clock, web, api_client>>

\* The finally block: if chaos_name: try: chaos.delete_chaos(Kind, chaos_name)
\* except Exception: print (chaos_helper.py:202-218 for the delete).
TestFinally ==
    /\ test.pc = "finally"
    /\ IF test.chaos_name = None
       THEN /\ test' = [test EXCEPT !.pc = "ended",
                                    !.result = Some(Result(test.pending))]
            /\ UNCHANGED cluster
       ELSE \E api \in ApiOutcomes :
              LET plural == DeletePlural(test.t.kind)
                  name == test.chaos_name[1]
                  raised == DeleteRaises(plural, name, api)
              IN /\ cluster' = IF raised THEN cluster ELSE cluster \ {<<plural, name>>}
                 /\ test' = [test EXCEPT
                               !.pc = "ended",
                               !.result = Some(FinalResult(test.pending, raised)),
                               !.trace = Append(@, <<"delete",
                                            IF api = "unreachable" THEN "unreachable"
                                            ELSE IF raised THEN "not_found" ELSE "ok">>)]
    /\ UNCHANGED <<orch, sys_argv, threads, clock, web, api_client>>

\* run_locust_load, line 26: from locust.main import main
ThreadImport ==
    /\ \E i \in DOMAIN threads :
         /\ threads[i].pc = "import"
         /\ \E ok \in BOOLEAN :
              threads' = [threads EXCEPT ![i].pc = IF ok THEN "save" ELSE "dead"]
    /\ UNCHANGED <<orch, sys_argv, cluster, test, clock, web, api_client>>

\* run_locust_load, line 43: original_argv = sys.argv.copy()
ThreadSave ==
    /\ \E i \in DOMAIN threads :
         /\ threads[i].pc = "save"
         /\ threads' = [threads EXCEPT ![i].pc = "set",
                                       ![i].original_argv = Some(sys_argv)]
    /\ UNCHANGED <<orch, sys_argv, cluster, test, clock, web, api_client>>

\* run_locust_load, line 44: sys.argv = ["locust"] + locust_args
ThreadSet ==
    /\ \E i \in DOMAIN threads :
         /\ threads[i].pc = "set"
         /\ threads' = [threads EXCEPT ![i].pc = "run"]
    /\ sys_argv' = LoadThreadArgv
    /\ UNCHANGED <<orch, cluster, test, clock, web, api_client>>

\* run_locust_load, lines 46-47: locust_main() returns or raises
ThreadRun ==
    /\ \E i \in DOMAIN threads :
         /\ threads[i].pc = "run"
         /\ threads' = [threads EXCEPT ![i].pc = "restore"]
    /\ UNCHANGED <<orch, sys_argv, cluster, test, clock, web, api_client>>

\* run_locust_load, lines 48-49: finally: sys.argv = original_argv
ThreadRestore ==
    /\ \E i \in DOMAIN threads :
         /\ threads[i].pc = "restore"
         /\ threads' = [threads EXCEPT ![i].pc = "done"]
         /\ sys_argv' = threads[i].original_argv[1]
    /\ UNCHANGED <<orch, cluster, test, clock, web, api_client>>

InitChaos == OrchIdle /\ sys_argv = ProgramArgv /\ ExtIdle

NextChaos ==
    \/ TestStart \/ TestStartThread \/ TestCreate \/ TestBody \/ TestJoin \/ TestFinally
    \/ ThreadImport \/ ThreadSave \/ ThreadSet \/ ThreadRun \/ ThreadRestore

SpecChaos == InitChaos /\ [][NextChaos]_vars

----------------------------------------------------------------------------
(* C14 *)

\* C14: delete_chaos and get_chaos_status address an experiment by the plural
\* its create_* used, so once a delete of a created experiment has reached
\* the API the experiment no longer exists.
C14_DeleteUsesCreatePlural ==
    (HasAttr(test, "trace") /\ (TraceHas("delete", "ok") \/ TraceHas("delete", "not_found"))) =>
        /\ DeletePlural(test.t.kind) = CreatePlural(test.t.kind)
        /\ <<CreatePlural(test.t.kind), test.chaos_name[1]>> \notin cluster

----------------------------------------------------------------------------
(* C15 *)

\* C15: a test never attempts more than one delete; when it has ended it has
\* attempted exactly one if its experiment was created and none if not; and
\* its result is that of its body, whatever the delete did.
C15_CleanupExactlyOnce ==
    HasAttr(test, "trace") =>
        /\ TraceCount("delete") <= 1
        /\ TraceCount("delete") = 1 => TraceHas("create", "ok")
        /\ test.pc = "ended" =>
              /\ TraceHas("create", "ok") => TraceCount("delete") = 1
              /\ ~TraceHas("create", "ok") => TraceCount("delete") = 0
              /\ test.result # Some("skipped") =>
                    test.result = Some(IF test.pending = None THEN "passed" ELSE "failed")

\* A test that passed although its delete failed.
C15_Witness ==
    /\ test.pc = "ended"
    /\ TraceHas("create", "ok")
    /\ TraceHas("delete", "not_found") \/ TraceHas("delete", "unreachable")
    /\ test.result = Some("passed")

----------------------------------------------------------------------------
(* C17 *)

\* C17: once every load thread has ended, sys.argv is what it was before the
\* first was started.
C17_ThreadsLeaveArgvIntact ==
    (\A i \in DOMAIN threads : threads[i].pc \in {"done", "dead"}) =>
        sys_argv = ProgramArgv

----------------------------------------------------------------------------
(* C18 *)

\* C18: a test that starts the load thread starts it before it creates the
\* experiment, and has joined it by the time it ends.
C18_LoadThreadStartedAndJoined ==
    (HasAttr(test, "t") /\ test.t.load) =>
        /\ \A i, j \in 1..Len(test.trace) :
              (test.trace[i][1] = "thread_start" /\ test.trace[j][1] = "create") => i < j
        /\ TraceCount("create") > 0 => TraceCount("thread_start") > 0
        /\ test.pc = "ended" => test.joined

----------------------------------------------------------------------------
(* chaos_helper.py:241-277: wait_for_chaos_completion *)

MaxTimeout == 5
MaxLatency == 2
SleepSeconds == 2

\* What one get_chaos_status call gives: it raises, or returns an object
\* whose status carries these conditions.
Condition(type, status) == [type |-> type, status |-> status]

PollResults ==
    {<<>>,
     <<Condition("Selected", "True")>>,
     <<Condition("Selected", "True"), Condition("AllInjected", "False")>>,
     <<Condition("Selected", "True"), Condition("AllInjected", "True")>>}

\* Mutant of AllInjected: the status of the condition is not looked at.
AllInjected_AnyStatus(conditions) ==
    \E i \in 1..Len(conditions) : conditions[i].type = "AllInjected"

\* lines 266-270: the for loop over the conditions
AllInjected(conditions) ==
    \E i \in 1..Len(conditions) :
        conditions[i].type = "AllInjected" /\ conditions[i].status = "True"

\* A caller calls wait_for_chaos_completion(kind, name, timeout); line 258
\* reads the clock.
WaitCall ==
    /\ test = Idle
    /\ \E timeout \in 0..MaxTimeout :
         test' = [pc |-> "while", start |-> clock, timeout |-> timeout,
                  polls |-> <<>>, ret |-> None]
    /\ UNCHANGED <<orch, sys_argv, cluster, threads, clock, web, api_client>>

\* line 260: while time.time() - start < timeout; line 277: return False
WaitWhile ==
    /\ test.pc = "while"
    /\ test' = IF clock - test.start < test.timeout
               THEN [test EXCEPT !.pc = "poll"]
               ELSE [test EXCEPT !.pc = "returned", !.ret = Some(FALSE)]
    /\ UNCHANGED <<orch, sys_argv, cluster, threads, clock, web, api_client>>

\* lines 261-270 and 273-275: one get_chaos_status call, which takes some
\* time, and the look at its conditions
WaitPoll ==
    /\ test.pc = "poll"
    /\ \E latency \in 0..MaxLatency, raises \in BOOLEAN, conditions \in PollResults :
         /\ raises => conditions = <<>>
         /\ clock' = clock + latency
         /\ LET poll == [begun |-> clock, returned |-> clock + latency,
                         raised |-> raises, conditions |-> conditions]
            IN test' = [test EXCEPT
                          !.polls = Append(@, poll),
                          !.pc = IF raises \/ AllInjected(conditions)
                                 THEN "returned" ELSE "sleep",
                          !.ret = IF raises THEN Some(FALSE)
                                  ELSE IF AllInjected(conditions) THEN Some(TRUE)
                                  ELSE None]
    /\ UNCHANGED <<orch, sys_argv, cluster, threads, web, api_client>>

\* line 272: time.sleep(2)
WaitSleep ==
    /\ test.pc = "sleep"
    /\ clock' = clock + SleepSeconds
    /\ test' = [test EXCEPT !.pc = "while"]
    /\ UNCHANGED <<orch, sys_argv, cluster, threads, web, api_client>>

InitWait == OrchIdle /\ sys_argv = ProgramArgv /\ ExtIdle

NextWait == WaitCall \/ WaitWhile \/ WaitPoll \/ WaitSleep

\* Every poll returns and every sleep ends.
SpecWait == InitWait /\ [][NextWait]_vars /\ WF_vars(NextWait)

----------------------------------------------------------------------------
(* C19 *)

Returned == HasAttr(test, "ret") /\ test.pc = "returned"

PollGaveAllInjected(i) ==
    /\ ~test.polls[i].raised
    /\ \E k \in 1..Len(test.polls[i].conditions) :
          test.polls[i].conditions[k] = Condition("AllInjected", "True")

\* What the call returns and when it polls, with 'a poll in time' left open:
\* True exactly when a poll in time gave AllInjected/True; nothing is polled
\* after a poll that raised, and the call then returns False; a False without
\* a raising poll means the timeout has elapsed.
WaitContract(InTime(_)) ==
    /\ HasAttr(test, "polls") =>
          \A i \in 1..Len(test.polls) :
              (test.polls[i].raised \/ PollGaveAllInjected(i)) =>
                  (i = Len(test.polls) /\ test.pc = "returned")
    /\ Returned =>
          /\ test.ret = Some(TRUE) <=>
                \E i \in 1..Len(test.polls) : PollGaveAllInjected(i) /\ InTime(i)
          /\ (\E i \in 1..Len(test.polls) : test.polls[i].raised) => test.ret = Some(FALSE)
          /\ (test.ret = Some(FALSE) /\ \A i \in 1..Len(test.polls) : ~test.polls[i].raised) =>
                clock - test.start >= test.timeout

ReturnedInTime(i) == test.polls[i].returned - test.start < test.timeout
BegunInTime(i) == test.polls[i].begun - test.start < test.timeout

----------------------------------------------------------------------------
(* src/orchestrator.py:24-51: what TestReport renders *)

\* One line (or part) for a suite field that is not None.
SuiteLine(label, field) ==
    IF field # None
    THEN << <<label, IF field[1] THEN "PASSED" ELSE "FAILED">> >>
    ELSE <<>>

\* lines 24-39: the heading and the suite lines of the markdown summary (the
\* duration line is not modelled)
to_markdown(r) ==
    [heading |-> IF r.success THEN "PASSED" ELSE "FAILED",
     suites |-> SuiteLine("System Tests", r.system_passed)
                  \o SuiteLine("Load Tests", r.load_passed)
                  \o SuiteLine("Chaos Tests", r.chaos_passed)]

\* Mutant of to_commit_status_description: the fields are tested for truth,
\* not for None, so a suite that failed gets no part.
to_commit_status_description_TruthTest(r) ==
    LET Part(label, field) == IF field = Some(TRUE) THEN << <<label, "PASSED">> >> ELSE <<>>
        parts == Part("System", r.system_passed) \o Part("Load", r.load_passed)
                    \o Part("Chaos", r.chaos_passed)
    IN IF parts # <<>>
       THEN [text |-> "parts joined by |", parts |-> parts]
       ELSE [text |-> "No tests run", parts |-> <<>>]

\* lines 41-51: " | ".join(parts) if parts else "No tests run"
to_commit_status_description(r) ==
    LET parts == SuiteLine("System", r.system_passed) \o SuiteLine("Load", r.load_passed)
                    \o SuiteLine("Chaos", r.chaos_passed)
    IN IF parts # <<>>
       THEN [text |-> "parts joined by |", parts |-> parts]
       ELSE [text |-> "No tests run", parts |-> <<>>]

----------------------------------------------------------------------------
(* C21 *)

\* The suites that returned, in the order System, Load, Chaos, each with how it
\* is to be shown, read off the history.
ShownFor(n, label) ==
    IF Executed(n)
    THEN << <<label, IF Passed(n) THEN "PASSED" ELSE "FAILED">> >>
    ELSE <<>>

\* C21: once run has built its report, each suite field is None iff that
\* suite's runner did not return in the run and otherwise is the runner's
\* result; to_markdown and to_commit_status_description show exactly the
\* suites that ran, in the order System, Load, Chaos; and the description is
\* 'No tests run' exactly when no suite ran.
C21_ReportRecordsSuitesRun ==
    Bound(report) =>
        /\ report.system_passed = None <=> ~Executed("_run_system_tests")
        /\ report.load_passed = None <=> ~Executed("_run_load_tests")
        /\ report.chaos_passed = None <=> ~Executed("_run_chaos_tests")
        /\ report.system_passed # None => (report.system_passed[1] <=> Passed("_run_system_tests"))
        /\ report.load_passed # None => (report.load_passed[1] <=> Passed("_run_load_tests"))
        /\ report.chaos_passed # None => (report.chaos_passed[1] <=> Passed("_run_chaos_tests"))
        /\ to_markdown(report).suites =
              ShownFor("_run_system_tests", "System Tests")
                \o ShownFor("_run_load_tests", "Load Tests")
                \o ShownFor("_run_chaos_tests", "Chaos Tests")
        /\ to_commit_status_description(report).parts =
              ShownFor("_run_system_tests", "System")
                \o ShownFor("_run_load_tests", "Load")
                \o ShownFor("_run_chaos_tests", "Chaos")
        /\ to_commit_status_description(report).text = "No tests run" <=>
              ~\E n \in SuiteNames : Executed(n)

\* A staging run of every suite in which the load suite failed: three parts,
\* the second a failure.
C21_Witness ==
    /\ Bound(report)
    /\ Executed("_run_system_tests") /\ Executed("_run_chaos_tests")
    /\ Logged("_run_load_tests", "False")
    /\ Len(to_commit_status_description(report).parts) = 3

\* A report for which no suite ran.
NoTestsRunReached ==
    /\ Bound(report)
    /\ to_commit_status_description(report).text = "No tests run"

----------------------------------------------------------------------------
(* C22 *)

\* _run_load_tests has been called and is no longer running.
LoadRunOver == Logged("_run_load_tests", "start") /\ pc # "load_running"

\* C22: for every outcome of the load run _run_load_tests yields a boolean
\* (nothing propagates); it is True iff locust_main was called and returned
\* 0; it is False without a call of locust_main when the locustfile is
\* missing; and it is False when the call of locust_main raised.
C22_LoadTestsYieldBoolean ==
    LoadRunOver =>
        /\ Executed("_run_load_tests")
        /\ Passed("_run_load_tests") <=> Logged("locust_main", "returned 0")
        /\ (Logged("locust_main", "raised Exception")
              \/ Logged("locust_main", "raised SystemExit")) =>
                 Logged("_run_load_tests", "False")

----------------------------------------------------------------------------
(* C23 *)

\* C23: while the system or the chaos suite started by the orchestrator is
\* running, the default request timeout of the session's APIClient is
\* config.timeout.
C23_ConfigTimeoutGovernsClient ==
    pc \in {"system_running", "chaos_running"} =>
        /\ api_client # None
        /\ api_client[1].timeout = config.timeout

----------------------------------------------------------------------------
(* C24 *)

\* C24: once main has applied the CLI options, base_url and timeout are the
\* option's value if the option was given and from_mode's value if not,
\* verbose is the --verbose flag, and mode, create_pr, send_email and
\* github_token are as from_mode set them.
C24_CliOverridesOnlyWhatWasGiven ==
    (entry = "cli" /\ Bound(config) /\ pc \notin {"main", "override"}) =>
        LET chosen == from_mode(args.mode, env)
        IN /\ config.base_url =
                 IF args.base_url # None THEN args.base_url[1] ELSE chosen.base_url
           /\ config.timeout =
                 IF args.timeout # None THEN args.timeout[1] ELSE chosen.timeout
           /\ config.verbose = args.verbose
           /\ config.mode = chosen.mode
           /\ config.create_pr = chosen.create_pr
           /\ config.send_email = chosen.send_email
           /\ config.github_token = chosen.github_token

----------------------------------------------------------------------------
(* C25 *)

Before(a, b) ==
    \A i, j \in 1..Len(log) : (log[i][1] = a /\ log[j][1] = b) => i < j

\* C25: the fixture loads the in-cluster configuration first and the
\* kubeconfig only after that has failed; if both fail, or the API does not
\* answer, the session exits with return code 1 and no test body runs (no
\* experiment is created), _run_chaos_tests returns False and the verdict of
\* the run is failure.
C25_K8sFixtureFailsClosed ==
    /\ (Called("load_kube_config") \/ Called("get_api_resources")) =>
          Called("load_incluster_config")
    /\ Before("load_incluster_config", "load_kube_config")
    /\ Before("load_incluster_config", "get_api_resources")
    /\ Called("load_kube_config") => Logged("load_incluster_config", "ConfigException")
    /\ (Logged("load_kube_config", "ConfigException") \/ Logged("get_api_resources", "raised")) =>
          /\ Logged("pytest.exit", "1")
          /\ ~Called("chaos_test_bodies")
          /\ Logged("_run_chaos_tests", "False")
          /\ Bound(report) => ~report.success

\* A run whose system and load suites passed and whose verdict is failure
\* because the Kubernetes API did not answer.
C25_Witness ==
    /\ Bound(report)
    /\ Logged("_run_system_tests", "True")
    /\ Logged("_run_load_tests", "True")
    /\ Logged("get_api_resources", "raised")
    /\ ~report.success

----------------------------------------------------------------------------
(* src/tests/chaos/test_pod_failures.py:126-224: test_multiple_pod_failures *)

MaxPods == 4
MaxWait == 90
RecoverySleep == 3

\* chaos_helper.py:63-80: the spec of the body create_pod_chaos builds from
\* its arguments
PodChaosSpec(action, selector, duration, mode) ==
    [action |-> action, mode |-> mode, selector |-> selector, duration |-> duration]

\* Python's // on the non-negative numbers used here
FloorDiv(a, b) == a \div b

Min(a, b) == IF a < b THEN a ELSE b

\* line 163: value = min(2, pod_count // 2) if pod_count > 2 else 1
TargetCount(pod_count) ==
    IF pod_count > 2 THEN Min(2, FloorDiv(pod_count, 2)) ELSE 1

\* lines 147-159: the running pods are counted; fewer than 2 skips the test
PodsCount ==
    /\ test = Idle
    /\ \E pod_count \in 0..MaxPods :
         test' = [pc |-> IF pod_count < 2 THEN "ended" ELSE "create",
                  pod_count |-> pod_count,
                  value |-> None,
                  chaos_name |-> None,
                  start |-> 0,
                  ready |-> None,
                  pending |-> None,
                  result |-> IF pod_count < 2 THEN Some("skipped") ELSE None]
    /\ UNCHANGED <<orch, sys_argv, cluster, threads, clock, web, api_client>>

\* lines 160-175: value is computed, the experiment is created from action,
\* selector, duration and mode
PodsCreate ==
    /\ test.pc = "create"
    /\ \E api \in ApiOutcomes :
         IF api = "reached"
         THEN /\ cluster' = cluster \cup
                    {<<CreatePlural(PodChaos), GenerateName(1),
                       PodChaosSpec("pod-kill", "app", "30s", "fixed")>>}
              /\ test' = [test EXCEPT !.pc = "recovery",
                                      !.value = Some(TargetCount(test.pod_count)),
                                      !.chaos_name = Some(GenerateName(1)),
                                      !.start = clock]
         ELSE /\ test' = [test EXCEPT !.pc = "finally",
                                      !.value = Some(TargetCount(test.pod_count)),
                                      !.pending = Some("ApiException")]
              /\ UNCHANGED cluster
    /\ UNCHANGED <<orch, sys_argv, threads, clock, web, api_client>>

\* lines 181-204: while time.time() - start < max_wait, count the ready pods;
\* enough of them breaks the loop, otherwise sleep 3; the else of the while is
\* pytest.fail
PodsRecovery ==
    /\ test.pc = "recovery"
    /\ IF clock - test.start < MaxWait
       THEN \E ready \in 0..MaxPods :
              /\ test' = [test EXCEPT !.ready = Some(ready),
                                      !.pc = IF ready >= test.pod_count
                                             THEN "health" ELSE "recovery"]
              /\ clock' = IF ready >= test.pod_count THEN clock ELSE clock + RecoverySleep
       ELSE /\ test' = [test EXCEPT !.pc = "finally", !.pending = Some("Failed")]
            /\ UNCHANGED clock
    /\ UNCHANGED <<orch, sys_argv, cluster, threads, web, api_client>>

\* lines 206-215: the health request and its two assertions
PodsHealth ==
    /\ test.pc = "health"
    /\ \E outcome \in {"pass", "AssertionError", "Exception"} :
         test' = [test EXCEPT !.pc = "finally",
                              !.pending = IF outcome = "pass" THEN None ELSE Some(outcome)]
    /\ UNCHANGED <<orch, sys_argv, cluster, threads, clock, web, api_client>>

\* lines 219-224: the finally block
PodsFinally ==
    /\ test.pc = "finally"
    /\ IF test.chaos_name = None
       THEN /\ test' = [test EXCEPT !.pc = "ended", !.result = Some(Result(test.pending))]
            /\ UNCHANGED cluster
       ELSE \E api \in ApiOutcomes :
              LET plural == DeletePlural(PodChaos)
                  gone == {o \in cluster : o[1] = plural /\ o[2] = test.chaos_name[1]}
                  raised == api = "unreachable" \/ gone = {}
              IN /\ cluster' = cluster \ gone
                 /\ test' = [test EXCEPT !.pc = "ended",
                                         !.result = Some(FinalResult(test.pending, raised))]
    /\ UNCHANGED <<orch, sys_argv, threads, clock, web, api_client>>

InitPods == OrchIdle /\ sys_argv = ProgramArgv /\ ExtIdle

NextPods == PodsCount \/ PodsCreate \/ PodsRecovery \/ PodsHealth \/ PodsFinally

SpecPods == InitPods /\ [][NextPods]_vars

----------------------------------------------------------------------------
(* C26 *)

\* C26: with fewer than 2 running pods the test is skipped and creates
\* nothing; otherwise the experiment it creates is in 'fixed' mode and
\* carries the target count min(2, pod_count // 2) if pod_count > 2 else 1;
\* and the test passes only if at least pod_count pods were ready within the
\* wait limit.
C26_FixedModeCarriesTargetCount ==
    HasAttr(test, "pod_count") =>
        /\ test.pod_count < 2 => (test.result = Some("skipped") /\ cluster = {})
        /\ \A o \in cluster :
              /\ test.pod_count >= 2
              /\ o[3].mode = "fixed"
              /\ HasAttr(o[3], "value")
              /\ o[3].value = (IF test.pod_count > 2
                               THEN (IF test.pod_count >= 4 THEN 2 ELSE 1)
                               ELSE 1)
        /\ test.result = Some("passed") =>
              (test.ready # None /\ test.ready[1] >= test.pod_count)

----------------------------------------------------------------------------
(* src/tests/helpers/api_client.py: the requests of APIClient *)

MaxRetries == 3
MaxSent == 1
MaxPassed == 2

\* api_client.py:41: status_forcelist, the statuses the adapter sends again
StatusForcelist == {429, 500, 502, 503, 504}

\* A response body: a JSON object with or without a "status" member, a JSON
\* value that is not an object, or text that is not JSON.
Bodies ==
    {[kind |-> "object", status |-> s] :
        s \in {None, Some("UP"), Some("healthy"), Some("DOWN")}}
    \cup {[kind |-> "array", status |-> None], [kind |-> "text", status |-> None]}

Response(status_code, body) == [status_code |-> status_code, body |-> body]

\* What session.get/post/put/delete yields for one call: a response whose
\* status the adapter does not retry, or an exception; sends is the number of
\* transmissions the adapter made (api_client.py:38-47). A retried status
\* that is still there after max_retries raises RetryError.
SessionOutcomes ==
    {[sends |-> n, raised |-> None, response |-> Some(Response(c, b))] :
        n \in {1, MaxRetries + 1}, c \in {200, 204, 404},
        b \in Bodies}
    \cup {[sends |-> n, raised |-> Some("ConnectionError"), response |-> None] :
            n \in {1, MaxRetries + 1}}
    \cup {[sends |-> MaxRetries + 1, raised |-> Some("RetryError"), response |-> None]}

\* lines 78, 114, 151, 184: timeout = timeout or self.timeout
EffectiveTimeout(self, timeout) ==
    IF TruthyInt(timeout) THEN timeout[1] ELSE self.timeout

\* lines 77-87 (and 113-124, 150-161, 183-192): the request is sent with the
\* effective timeout, then response.raise_for_status()
request(self, method, timeout, out) ==
    LET returned == out.raised = None
        status_error == returned /\ out.response[1].status_code >= 400
    IN  [client |-> [self EXCEPT !.sent =
                        Append(@, [method |-> method,
                                   timeout |-> EffectiveTimeout(self, timeout),
                                   sends |-> out.sends])],
         raised |-> IF ~returned THEN out.raised
                    ELSE IF status_error THEN Some("HTTPError") ELSE None,
         response |-> IF returned /\ ~status_error THEN out.response ELSE None]

get(self, timeout, out) == request(self, "GET", timeout, out)
post(self, timeout, out) == request(self, "POST", timeout, out)
put(self, timeout, out) == request(self, "PUT", timeout, out)
delete(self, timeout, out) == request(self, "DELETE", timeout, out)

\* The timeout arguments a caller passes: none, or a number of seconds
PassedTimeouts == {None} \cup {Some(t) : t \in 0..MaxPassed}

\* A caller holds the api_client fixture; the client was built with the
\* option's default or with a given --http-timeout
InitClient ==
    /\ OrchIdle
    /\ sys_argv = ProgramArgv
    /\ cluster = {}
    /\ test = Idle
    /\ threads = <<>>
    /\ clock = 0
    /\ web = Idle
    /\ api_client \in {Some(ApiClientFixture([base_url |-> None, http_timeout |-> o])) :
                          o \in {None, Some(MaxTimeout)}}

\* The state after a call: the client with the request in its history, and
\* what the caller passed and got
ClientCall(method, timeout, r) ==
    /\ api_client' = Some(r.client)
    /\ test' = [pc |-> "called", method |-> method, passed |-> timeout,
                raised |-> r.raised, response |-> r.response]
    /\ UNCHANGED <<orch, sys_argv, cluster, threads, clock, web>>

ClientGet ==
    /\ Len(api_client[1].sent) < MaxSent
    /\ \E timeout \in PassedTimeouts, out \in SessionOutcomes :
         ClientCall("GET", timeout, get(api_client[1], timeout, out))

ClientPost ==
    /\ Len(api_client[1].sent) < MaxSent
    /\ \E timeout \in PassedTimeouts, out \in SessionOutcomes :
         ClientCall("POST", timeout, post(api_client[1], timeout, out))

ClientPut ==
    /\ Len(api_client[1].sent) < MaxSent
    /\ \E timeout \in PassedTimeouts, out \in SessionOutcomes :
         ClientCall("PUT", timeout, put(api_client[1], timeout, out))

ClientDelete ==
    /\ Len(api_client[1].sent) < MaxSent
    /\ \E timeout \in PassedTimeouts, out \in SessionOutcomes :
         ClientCall("DELETE", timeout, delete(api_client[1], timeout, out))

NextClient == ClientGet \/ ClientPost \/ ClientPut \/ ClientDelete

SpecClient == InitClient /\ [][NextClient]_vars

----------------------------------------------------------------------------
(* C29 *)

LastSent == api_client[1].sent[Len(api_client[1].sent)]

\* C29: every get, post, put and delete is sent with the timeout the caller
\* passed whenever one was passed, and with the client's default only when
\* none was passed.
C29_ExplicitTimeoutOverridesDefault ==
    test.pc = "called" =>
        /\ LastSent.method = test.method
        /\ LastSent.timeout = (IF test.passed # None
                               THEN test.passed[1]
                               ELSE api_client[1].timeout)

----------------------------------------------------------------------------
(* The retrying health checks of the chaos tests: test_packet_loss
   (test_network_chaos.py:201-220), test_cpu_stress (test_stress.py:58-78)
   and test_memory_stress (test_stress.py:136-153) *)

MaxAttempts == 3

\* The request timeout and the sleep after a failed attempt of each check
RetryChecks ==
    {[name |-> "packet_loss", timeout |-> 10, sleep |-> 2],
     [name |-> "cpu_stress", timeout |-> 15, sleep |-> 3],
     [name |-> "memory_stress", timeout |-> 15, sleep |-> 3]}

AttemptSucceeds_Any200(r) ==
    r.raised = None /\ r.response[1].status_code = 200

\* if response.status_code == 200: data = response.json();
\* if data.get("status") == "UP": success = True
AttemptSucceeds(r) ==
    /\ r.raised = None
    /\ r.response[1].status_code = 200
    /\ r.response[1].body.kind = "object"
    /\ r.response[1].body.status = Some("UP")

\* The except branch is taken when get raises, when response.json() raises
\* on text that is not JSON, and when data.get raises on a JSON value that is
\* not an object
AttemptRaises(r) ==
    \/ r.raised # None
    \/ /\ r.response[1].status_code = 200
       /\ r.response[1].body.kind \in {"text", "array"}

\* max_attempts = 3; success = False
RetryStart ==
    /\ test = Idle
    /\ \E check \in RetryChecks :
         test' = [pc |-> "attempt", check |-> check, attempt |-> 0,
                  success |-> FALSE, outcomes |-> <<>>, result |-> None]
    /\ UNCHANGED <<orch, sys_argv, cluster, threads, clock, web, api_client>>

\* One pass of the body of for attempt in range(max_attempts)
RetryAttempt ==
    /\ test.pc = "attempt"
    /\ test.attempt < MaxAttempts
    /\ \E out \in SessionOutcomes :
         LET r == get(api_client[1], Some(test.check.timeout), out)
             success == AttemptSucceeds(r)
         IN  /\ api_client' = Some(r.client)
             /\ test' = [test EXCEPT
                           !.outcomes = Append(@, out),
                           !.success = success,
                           !.attempt = IF success THEN @ ELSE @ + 1,
                           !.pc = IF success \/ test.attempt + 1 = MaxAttempts
                                  THEN "assert" ELSE "attempt"]
             /\ clock' = IF AttemptRaises(r) THEN clock + test.check.sleep ELSE clock
    /\ UNCHANGED <<orch, sys_argv, cluster, threads, web>>

\* assert success
RetryAssert ==
    /\ test.pc = "assert"
    /\ test' = [test EXCEPT !.pc = "ended",
                            !.result = Some(IF test.success THEN "passed" ELSE "failed")]
    /\ UNCHANGED <<orch, sys_argv, cluster, threads, clock, web, api_client>>

NextRetry == RetryStart \/ RetryAttempt \/ RetryAssert

SpecRetry == InitClient /\ [][NextRetry]_vars

----------------------------------------------------------------------------
(* C27 *)

\* The request came back with HTTP 200 and a body whose status is UP
IsUp200(out) ==
    /\ out.raised = None
    /\ out.response[1] = Response(200, [kind |-> "object", status |-> Some("UP")])

\* C27: a retrying check makes at most 3 health requests, makes none after
\* the first one that returned HTTP 200 with status UP, and passes exactly
\* when one of its requests did so; a request that raised or whose body is
\* not UP is never the success.
C27_RetryingChecksBounded ==
    HasAttr(test, "outcomes") =>
        /\ Len(api_client[1].sent) = Len(test.outcomes)
        /\ Len(test.outcomes) <= 3
        /\ \A i \in 1..Len(test.outcomes) :
              IsUp200(test.outcomes[i]) => i = Len(test.outcomes)
        /\ test.success =>
              (test.outcomes # <<>> /\ IsUp200(test.outcomes[Len(test.outcomes)]))
        /\ test.result # None =>
              (test.result = Some("passed")
                  <=> \E i \in 1..Len(test.outcomes) : IsUp200(test.outcomes[i]))

\* A check passed on its third request, after a 200 whose status was not UP
\* and a request that raised
C27_Witness ==
    /\ HasAttr(test, "outcomes")
    /\ test.result = Some("passed")
    /\ Len(test.outcomes) = 3
    /\ test.outcomes[1].raised = None
    /\ test.outcomes[1].response[1].status_code = 200
    /\ test.outcomes[1].response[1].body.status = Some("DOWN")
    /\ test.outcomes[2].raised # None
    /\ IsUp200(test.outcomes[3])

----------------------------------------------------------------------------
(* src/tests/load/scenarios/health.py: HealthCheckScenario *)

MaxChecks == 3

\* health.py:12-27
HEALTH_ENDPOINTS ==
    {"/actuator/health", "/api/access/actuator/health", "/api/audit/actuator/health",
     "/api/catalog/actuator/health", "/api/customers/actuator/health",
     "/api/inventory/actuator/health", "/api/orders/actuator/health",
     "/api/pricing/actuator/health", "/api/sales-dashboard/actuator/health",
     "/api/sites/actuator/health", "/api/chatbot/health", "/api/recommender/health",
     "/api/auth-b2c/healthz", "/api/auth-b2e/healthz"}

\* What the Locust client hands to the with block: a status code (0 when no
\* response arrived) and a body
LocustResponses == {Response(c, b) : c \in {0, 200, 204, 404, 503}, b \in Bodies}

HealthyStatuses_OnlyUP == {"UP"}

\* line 60: ["UP", "healthy"]
HealthyStatuses == {"UP", "healthy"}

\* lines 57-65: the body of the try; raised tells that response.json() raised
TryBlock(response) ==
    IF response.body.kind = "text"
    THEN [marks |-> <<>>, raised |-> TRUE]
    ELSE IF response.body.kind = "object" /\ response.body.status # None
         THEN [marks |-> IF response.body.status[1] \in HealthyStatuses
                         THEN <<"success">> ELSE <<"failure">>,
               raised |-> FALSE]
         ELSE [marks |-> <<"success">>, raised |-> FALSE]

\* lines 54-70: the calls of response.success() and response.failure(), in
\* order
check_health(response) ==
    IF response.status_code = 200
    THEN TryBlock(response).marks
            \o (IF TryBlock(response).raised THEN <<"success">> ELSE <<>>)
    ELSE <<"failure">>

\* lines 37-41: run picks an endpoint and checks it; the counters are the
\* statistics Locust keeps of the marks
HealthRun ==
    /\ \/ test = Idle
       \/ test.pc = "checked" /\ test.num_requests < MaxChecks
    /\ \E endpoint \in HEALTH_ENDPOINTS, response \in LocustResponses :
         LET marks == check_health(response)
             before == IF test = Idle
                       THEN [num_requests |-> 0, num_failures |-> 0]
                       ELSE [num_requests |-> test.num_requests,
                             num_failures |-> test.num_failures]
         IN  test' = [pc |-> "checked", endpoint |-> endpoint, response |-> response,
                      marks |-> marks,
                      num_requests |-> before.num_requests + 1,
                      num_failures |-> before.num_failures
                          + (IF marks # <<>> /\ marks[Len(marks)] = "failure" THEN 1 ELSE 0)]
    /\ UNCHANGED <<orch, sys_argv, cluster, threads, clock, web, api_client>>

InitLoadHealth == OrchIdle /\ sys_argv = ProgramArgv /\ ExtIdle

NextLoadHealth == HealthRun

SpecLoadHealth == InitLoadHealth /\ [][NextLoadHealth]_vars

----------------------------------------------------------------------------
(* C28 *)

\* The responses the claim calls failures
IsHealthFailure(response) ==
    \/ response.status_code # 200
    \/ /\ response.body.kind = "object"
       /\ response.body.status # None
       /\ response.body.status[1] # "UP"
       /\ response.body.status[1] # "healthy"

\* C28: check_health marks every response exactly once: as a failure when the
\* HTTP status is not 200 or the body is a JSON object whose status is
\* neither UP nor healthy, and as a success in every other case.
C28_HealthMarkedExactlyOnce ==
    test.pc = "checked" =>
        /\ Len(test.marks) = 1
        /\ test.marks[1] = (IF IsHealthFailure(test.response) THEN "failure" ELSE "success")

\* A 200 whose status is healthy was marked a success, as the second check
\* of a user whose first response was marked a failure
C28_Witness ==
    /\ test.pc = "checked"
    /\ test.response.status_code = 200
    /\ test.response.body.status = Some("healthy")
    /\ test.marks = <<"success">>
    /\ test.num_requests = 2
    /\ test.num_failures = 1

====
